---- MODULE Spec2Model ----
(***************************************************************************)
(* Model of the revision-spec resolution delegate of git-repository        *)
(* (rev_spec/parse/delegate.rs): the callbacks the grammar driver invokes, *)
(* the finalization step `done` and the two consuming operations           *)
(* `into_err` and `into_rev_spec`.                                         *)
(*                                                                         *)
(* Option<T> is modelled as a sequence of length at most one:              *)
(* None == <<>>, Some(x) == <<x>>.                                         *)
(* Object ids and names are sequences of characters; characters are        *)
(* numbers: 0..15 are the hex digits, larger numbers are other letters.    *)
(* Store lookups are assumed not to fail with I/O errors: a lookup fails   *)
(* only because the thing looked up does not exist.                        *)
(***************************************************************************)
EXTENDS Integers, Sequences, FiniteSets, TLC

None == <<>>
Some(x) == <<x>>
IsSome(o) == o /= <<>>
IsNone(o) == o = <<>>
Unwrap(o) == o[1]

(***************************************************************************)
(* Bounds of the model.                                                    *)
(***************************************************************************)
\* the driver emits at most this many callbacks before done
MaxCalls == 3

(***************************************************************************)
(* The repository: an object store and a reference store, both immutable   *)
(* during one resolution.                                                  *)
(***************************************************************************)
NoEntries == {}

Commit(tree) == [kind |-> "commit", target |-> tree, entries |-> NoEntries]
Tag(target) == [kind |-> "tag", target |-> target, entries |-> NoEntries]
Tree(entries) == [kind |-> "tree", target |-> <<>>, entries |-> entries]
Blob == [kind |-> "blob", target |-> <<>>, entries |-> NoEntries]

\* An id the trees and references below mention but the store does not hold.
MissingId == <<3, 0, 0>>

\* repo.objects: object id -> object.  The ids starting with 1 are trees:
\* "a" leads from the first to the second, "a/b" from the first to the
\* third, and the second's "a" names an object the store does not hold.
\* The ids starting with 2 are a commit, a blob and a tag of the commit.
ObjectStore ==
    ( <<1, 1, 1>> :> Tree({ <<"a", <<1, 1, 2>>>> }) ) @@
    ( <<1, 1, 2>> :> Tree({ <<"a", MissingId>>, <<"b", <<1, 2, 1>>>> }) ) @@
    ( <<1, 2, 1>> :> Tree(NoEntries) ) @@
    ( <<2, 1, 1>> :> Commit(<<1, 1, 1>>) ) @@
    ( <<2, 1, 2>> :> Blob ) @@
    ( <<2, 2, 1>> :> Tag(<<2, 1, 1>>) )

ObjectIds == DOMAIN ObjectStore
AllIds == ObjectIds \cup {MissingId}

Peeled(id) == [symbolic |-> FALSE, to |-> id]
Symbolic(name) == [symbolic |-> TRUE, to |-> name]

\* repo.refs: reference name -> target.  <<1, 1>> and <<2, 1>> are names
\* that are also hex prefixes, <<2, 1, 2>> is a name that is also a
\* full-length hex id; the names starting with 16 are not hex.
RefStore ==
    ( <<1, 1>> :> Peeled(<<2, 2, 1>>) ) @@
    ( <<2, 1>> :> Peeled(<<1, 2, 1>>) ) @@
    ( <<2, 1, 2>> :> Peeled(<<2, 1, 1>>) ) @@
    ( <<16, 1>> :> Peeled(<<2, 1, 1>>) ) @@
    ( <<16, 2>> :> Symbolic(<<16, 3>>) ) @@
    ( <<16, 3>> :> Peeled(<<2, 2, 1>>) ) @@
    ( <<16, 4>> :> Symbolic(<<16, 9>>) ) @@
    ( <<16, 5>> :> Peeled(MissingId) )

RefNames == DOMAIN RefStore

Kinds == {"commit", "tree", "blob", "tag"}

\* git_hash::Kind::len_in_hex of the hash kind of an id
len_in_hex(id) == Len(id)

(***************************************************************************)
(* git_hash::Prefix: an id whose digits after the first hex_len are zero.  *)
(***************************************************************************)
Pad(hex, n) == [i \in 1..n |-> IF i <= Len(hex) THEN hex[i] ELSE 0]

\* Prefix::from_hex
PrefixFromHex(hex) == [bytes |-> Pad(hex, Len(MissingId)), hex_len |-> Len(hex)]

\* Prefix::to_string (Display): the first hex_len digits
PrefixToString(p) == SubSeq(p.bytes, 1, p.hex_len)

\* Prefix::cmp_oid(..) == Equal
PrefixMatches(p, id) == SubSeq(id, 1, p.hex_len) = SubSeq(p.bytes, 1, p.hex_len)

\* repo.objects.lookup_prefix(prefix, candidates): the candidate set it fills
lookup_prefix(p) == { id \in ObjectIds : PrefixMatches(p, id) }

\* Ord for ObjectId: lexicographic
IdLess(a, b) ==
    \E i \in 1..Len(a) :
        /\ a[i] < b[i]
        /\ \A j \in 1..(i - 1) : a[j] = b[j]

\* all enumeration orders of a finite set (HashSet iteration order)
Orders(S) ==
    { o \in [1..Cardinality(S) -> S] : \A i, j \in 1..Cardinality(S) : i /= j => o[i] /= o[j] }

SortedById(S) ==
    CHOOSE o \in Orders(S) : \A i, j \in 1..Cardinality(S) : i < j => IdLess(o[i], o[j])

\* Id::shorten_or_id: the shortest prefix naming the object uniquely, the
\* whole id when the store cannot tell
shorten_or_id(id) ==
    IF id \in ObjectIds
    THEN LET n == CHOOSE n \in 1..Len(id) :
                    /\ lookup_prefix(PrefixFromHex(SubSeq(id, 1, n))) = {id}
                    /\ \A m \in 1..(n - 1) : lookup_prefix(PrefixFromHex(SubSeq(id, 1, m))) /= {id}
         IN PrefixFromHex(SubSeq(id, 1, n))
    ELSE PrefixFromHex(id)

(***************************************************************************)
(* Diagnostics.  Every diagnostic is a record of the same shape; the       *)
(* fields a variant does not have hold the defaults of NoError.            *)
(***************************************************************************)
NoPrefix == [bytes |-> <<>>, hex_len |-> 0]

NoError ==
    [type |-> "", prefix |-> NoPrefix, name |-> <<>>, oid |-> <<>>, object |-> NoPrefix,
     tree |-> NoPrefix, path |-> <<>>, actual |-> "", expected |-> "", info |-> <<>>]

\* Error::PrefixNotFound { prefix }
PrefixNotFound(p) == [NoError EXCEPT !.type = "PrefixNotFound", !.prefix = p]

\* Error::AmbiguousRefAndObject { prefix, reference }
AmbiguousRefAndObject(p, r) ==
    [NoError EXCEPT !.type = "AmbiguousRefAndObject", !.prefix = p, !.name = r.name]

\* Error::ambiguous(candidates, prefix, repo): Error::AmbiguousPrefix whose
\* candidates are listed in a stable order, sorted by id
ambiguous(candidates, p) ==
    [NoError EXCEPT !.type = "AmbiguousPrefix", !.prefix = p, !.info = SortedById(candidates)]

\* the error of repo.refs.find, converted with into()
RefNotFound(name) == [NoError EXCEPT !.type = "RefNotFound", !.name = name]

\* the error of repo.find_object, converted with into()
FindExistingObject(id) == [NoError EXCEPT !.type = "FindExistingObject", !.oid = id]

\* the error of Object::peel_to_kind, converted with into()
PeelToKindNotFound(id, actual, expected) ==
    [NoError EXCEPT !.type = "PeelToKind", !.oid = id, !.actual = actual, !.expected = expected]

\* Error::ObjectKind { actual, expected, oid }
ObjectKind(id, actual, expected) ==
    [NoError EXCEPT !.type = "ObjectKind", !.oid = id, !.actual = actual, !.expected = expected]

\* Error::PathNotFound { path, object, tree }
PathNotFound(path, object, tree) ==
    [NoError EXCEPT !.type = "PathNotFound", !.path = path, !.object = object, !.tree = tree]

\* Error::from_errors: the aggregated, ordered error list
from_errors(errors) == errors

\* Result<T, Error>
Ok(v) == [ok |-> TRUE, val |-> v, err |-> NoError]
Err(e) == [ok |-> FALSE, val |-> <<>>, err |-> e]

(***************************************************************************)
(* Lookups in the two stores.                                              *)
(***************************************************************************)
\* repo.find_object(id)
find_object(id) == IF id \in ObjectIds THEN Ok(id) ELSE Err(FindExistingObject(id))

\* repo.refs.find(name)
refs_find(name) ==
    IF name \in RefNames THEN Ok([name |-> name, target |-> RefStore[name]]) ELSE Err(RefNotFound(name))

\* Object::peel_to_kind(kind), started at an object the store holds
RECURSIVE peel_to_kind(_, _)
peel_to_kind(id, kind) ==
    LET obj == ObjectStore[id]
    IN  IF obj.kind = kind THEN Ok(id)
        ELSE IF obj.kind \in {"commit", "tag"}
             THEN IF find_object(obj.target).ok
                  THEN peel_to_kind(obj.target, kind)
                  ELSE Err(find_object(obj.target).err)
             ELSE Err(PeelToKindNotFound(id, obj.kind, kind))

\* fn peel(repo, obj, kind)
peel(obj, kind) ==
    IF find_object(obj).ok THEN peel_to_kind(obj, kind) ELSE Err(find_object(obj).err)

\* fn require_object_kind(repo, obj, kind)
require_object_kind(obj, kind) ==
    IF ~find_object(obj).ok THEN Err(find_object(obj).err)
    ELSE IF ObjectStore[obj].kind = kind THEN Ok(obj)
    ELSE Err(ObjectKind(obj, ObjectStore[obj].kind, kind))

\* the entries of a tree with the given file name
EntriesNamed(tree, component) == { e \in ObjectStore[tree].entries : e[1] = component }

\* Tree::lookup_path(components): Ok(Some(entry id)), Ok(None) when there is
\* no such entry, Err when a tree on the way is not in the store
RECURSIVE tree_lookup_path(_, _)
tree_lookup_path(tree, path) ==
    IF path = <<>> THEN Ok(None)
    ELSE IF EntriesNamed(tree, Head(path)) = {} THEN Ok(None)
    ELSE LET entry == CHOOSE e \in EntriesNamed(tree, Head(path)) : TRUE
         IN  IF Tail(path) = <<>> THEN Ok(Some(entry[2]))
             ELSE IF ~find_object(entry[2]).ok THEN Err(find_object(entry[2]).err)
             ELSE IF ObjectStore[entry[2]].kind /= "tree" THEN Ok(None)
             ELSE tree_lookup_path(entry[2], Tail(path))

\* lookup_path with a fault: the diagnostic names the candidate where the
\* tree it was peeled to belongs
lookup_path_names_object(obj, path) ==
    LET tree_id == peel(obj, "tree")
    IN  IF ~tree_id.ok THEN tree_id
        ELSE LET entry == tree_lookup_path(tree_id.val, path)
             IN  IF ~entry.ok THEN entry
                 ELSE IF IsNone(entry.val)
                      THEN Err(PathNotFound(path, shorten_or_id(obj), shorten_or_id(obj)))
                      ELSE Ok(Unwrap(entry.val))

\* the lookup_path closure of peel_until
lookup_path(obj, path) ==
    LET tree_id == peel(obj, "tree")
    IN  IF ~tree_id.ok THEN tree_id
        ELSE LET entry == tree_lookup_path(tree_id.val, path)
             IN  IF ~entry.ok THEN entry
                 ELSE IF IsNone(entry.val)
                      THEN Err(PathNotFound(path, shorten_or_id(obj), shorten_or_id(tree_id.val)))
                      ELSE Ok(Unwrap(entry.val))

\* the depth up to which a chain of symbolic references is followed
MaxRefDepth == Cardinality(RefNames)

\* following a chain of symbolic references to a direct target
RECURSIVE follow_symbolic(_, _)
follow_symbolic(target, depth) ==
    IF ~target.symbolic THEN Some(target.to)
    ELSE IF depth = 0 \/ target.to \notin RefNames THEN None
    ELSE follow_symbolic(RefStore[target.to], depth - 1)

\* unwrapping annotated tags down to the first object that is not a tag
RECURSIVE peel_tags(_)
peel_tags(id) ==
    IF id \notin ObjectIds THEN None
    ELSE IF ObjectStore[id].kind = "tag" THEN peel_tags(ObjectStore[id].target)
    ELSE Some(id)

\* Reference::peel_to_id_in_place().ok()
peel_to_id_in_place(ref) ==
    LET direct == follow_symbolic(ref.target, MaxRefDepth)
    IN  IF IsNone(direct) THEN None ELSE peel_tags(Unwrap(direct))

\* ref_.target.try_id().or_else(|| peel_to_id_in_place().ok())
ref_to_id(ref) == IF ~ref.target.symbolic THEN Some(ref.target.to) ELSE peel_to_id_in_place(ref)

(***************************************************************************)
(* cargo-smart-release: the crates to publish (traverse.rs).               *)
(***************************************************************************)
\* the longest list of crate names given on the command line
MaxNames == 2

\* the workspace members, one package outside the workspace, and a name
\* no package has (the user names workspace members or mistypes)
Packages == {"a", "b", "c"}
ExternalPackage == "ext"
UnknownName == "x"

\* cargo_metadata::Dependency { name, kind }
DependencyOn(name, k) == [name |-> name, kind |-> k]

\* Package::dependencies of a workspace member. Cargo refuses a cycle of
\* normal dependencies, so a depends on b and c, and b on c; development
\* dependencies may point back.
DependencyLists(p) ==
    CASE p = "a" -> { <<>>,
                      <<DependencyOn(ExternalPackage, "Normal")>>,
                      <<DependencyOn("b", "Normal")>>,
                      <<DependencyOn("c", "Normal")>>,
                      <<DependencyOn("b", "Development")>>,
                      <<DependencyOn("b", "Normal"), DependencyOn("c", "Normal")>>,
                      <<DependencyOn("c", "Normal"), DependencyOn("b", "Normal")>> }
      [] p = "b" -> { <<>>,
                      <<DependencyOn("c", "Normal")>>,
                      <<DependencyOn("a", "Development")>> }
      [] OTHER -> { <<>>, <<DependencyOn("a", "Development")>> }

\* cargo_metadata::Metadata: every package with its dependencies, and the
\* workspace members
Metadatas ==
    { [packages |-> [p \in Packages \cup {ExternalPackage} |->
                        IF p = ExternalPackage THEN <<>> ELSE deps[p]],
       workspace_members |-> Packages] :
      deps \in { f \in [Packages -> UNION { DependencyLists(p) : p \in Packages }] :
                   \A p \in Packages : f[p] \in DependencyLists(p) } }

\* the lists of crate names of at most n names
RECURSIVE NamesUpTo(_)
NamesUpTo(n) ==
    IF n = 0 THEN {<<>>}
    ELSE LET shorter == NamesUpTo(n - 1)
         IN  shorter \cup { Append(names, name) :
                              names \in { l \in shorter : Len(l) = n - 1 },
                              name \in Packages \cup {UnknownName} }

\* crate::Context with what git and the manifests say about each package:
\* the packages changed since their last release, and those of them whose
\* version is a pre-release (the version of an unchanged package is never
\* looked at)
Contexts ==
    { [meta |-> meta, crate_names |-> names,
       changed |-> state[1], pre_release |-> state[2]] :
      meta \in Metadatas,
      names \in NamesUpTo(MaxNames) \ {<<>>},
      state \in { cp \in (SUBSET Packages) \X (SUBSET Packages) : cp[2] \subseteq cp[1] } }

NoContext ==
    [meta |-> [packages |-> [p \in Packages \cup {ExternalPackage} |-> <<>>],
               workspace_members |-> Packages],
     crate_names |-> <<>>, changed |-> {}, pre_release |-> {}]
NoTraversal == [tag |-> "", crates |-> <<>>, add_production_crates |-> FALSE]

\* utils::package_by_name: an error when no package has the name
package_by_name(meta, name) == IF name \in DOMAIN meta.packages THEN Some(name) ELSE None

\* utils::workspace_package_by_name
workspace_package_by_name(meta, name) ==
    IF name \in DOMAIN meta.packages /\ name \in meta.workspace_members THEN Some(name) ELSE None

\* git::change_since_last_release(package, ctx)?.is_some()
change_since_last_release(package, c) == package \in c.changed

\* utils::is_pre_release_version(&package.version)
is_pre_release_version(package, c) == package \in c.pre_release

\* Dependency { package, kind, mode }
ToBePublished == [tag |-> "ToBePublished", reason |-> ""]
Skipped(reason) == [tag |-> "Skipped", reason |-> reason]
Dependency(package, k, mode) == [package |-> package, kind |-> k, mode |-> mode]

\* fn depth_first_traversal: the loop over the dependencies of root, from
\* the dependencies still to visit; st is seen, crates and skipped
RECURSIVE depth_first_traversal(_, _, _, _, _)
RECURSIVE depth_first_traversal_loop(_, _, _, _)
depth_first_traversal_loop(c, st, dependencies, add_production_crates) ==
    IF dependencies = <<>> THEN st
    ELSE LET dependency == Head(dependencies)
             found == workspace_package_by_name(c.meta, dependency.name)
         IN  IF dependency.kind # "Normal" \/ IsNone(found) \/ Unwrap(found) \in st.seen
             THEN depth_first_traversal_loop(c, st, Tail(dependencies), add_production_crates)
             ELSE LET workspace_dependency == Unwrap(found)
                      below == depth_first_traversal(c, st.seen \cup {workspace_dependency},
                                                     st.crates, workspace_dependency,
                                                     add_production_crates)
                      skipped == st.skipped \o below.skipped
                      entry(mode) ==
                          Dependency(workspace_dependency, "DependencyOfUserSelection", mode)
                      next ==
                          IF change_since_last_release(workspace_dependency, c)
                          THEN [seen |-> below.seen,
                                crates |->
                                    Append(below.crates,
                                           IF is_pre_release_version(workspace_dependency, c)
                                              \/ add_production_crates
                                           THEN entry(ToBePublished)
                                           ELSE entry(Skipped("DeniedAutopublishOfProductionCrate"))),
                                skipped |-> skipped]
                          ELSE [seen |-> below.seen,
                                crates |-> below.crates,
                                skipped |-> Append(skipped, entry(Skipped("Unchanged")))]
                  IN  depth_first_traversal_loop(c, next, Tail(dependencies),
                                                 add_production_crates)

depth_first_traversal(c, seen, crates, root, add_production_crates) ==
    depth_first_traversal_loop(c, [seen |-> seen, crates |-> crates, skipped |-> <<>>],
                               c.meta.packages[root], add_production_crates)

\* the workspace packages among the dependencies of any kind, in order
RECURSIVE workspace_dependencies(_, _)
workspace_dependencies(meta, dependencies) ==
    IF dependencies = <<>> THEN <<>>
    ELSE LET found == workspace_package_by_name(meta, Head(dependencies).name)
         IN  found \o workspace_dependencies(meta, Tail(dependencies))

\* fn dependency_tree_has_link_to_existing_crate_names: the loop over the
\* stack of packages still to look at
RECURSIVE dependency_tree_has_link_loop(_, _, _, _)
dependency_tree_has_link_loop(meta, dependencies, seen, existing) ==
    IF dependencies = <<>> THEN FALSE
    ELSE LET package == dependencies[Len(dependencies)]
             rest == SubSeq(dependencies, 1, Len(dependencies) - 1)
         IN  IF package \in seen
             THEN dependency_tree_has_link_loop(meta, rest, seen, existing)
             ELSE IF \E k \in 1..Len(existing) : existing[k].package = package
             THEN TRUE
             ELSE dependency_tree_has_link_loop(
                      meta, rest \o workspace_dependencies(meta, meta.packages[package]),
                      seen \cup {package}, existing)

dependency_tree_has_link_to_existing_crate_names(meta, root, existing) ==
    dependency_tree_has_link_loop(meta, <<root>>, {}, existing)

\* the entry dependencies() adds for a crate the user named that has not
\* changed and brought no dependency into the list
unchanged_user_selection(package) ==
    Dependency(package, "UserSelection", Skipped("Unchanged"))

\* pub fn dependencies: the loop over ctx.crate_names, from the names still
\* to visit; st is seen and crates
RECURSIVE dependencies_loop(_, _, _, _)
dependencies_loop(c, crate_names, st, add_production_crates) ==
    IF crate_names = <<>> THEN [tag |-> "Ok", crates |-> st.crates]
    ELSE LET found == package_by_name(c.meta, Head(crate_names))
         IN  IF IsNone(found) THEN [tag |-> "Err", crates |-> <<>>]
             ELSE IF Unwrap(found) \in st.seen
             THEN dependencies_loop(c, Tail(crate_names), st, add_production_crates)
             ELSE LET package == Unwrap(found)
                      redo == dependency_tree_has_link_to_existing_crate_names(
                                  c.meta, package, st.crates)
                      seen == IF redo THEN {} ELSE st.seen
                      crates == IF redo THEN <<>> ELSE st.crates
                      num_crates_for_publishing_without_dependencies == Len(crates)
                      visited == depth_first_traversal(c, seen, crates, package,
                                                       add_production_crates)
                      extended == visited.crates \o visited.skipped
                      found_no_dependencies ==
                          num_crates_for_publishing_without_dependencies = Len(extended)
                      next ==
                          IF change_since_last_release(package, c)
                          THEN [seen |-> visited.seen \cup {package},
                                crates |-> Append(extended,
                                                  Dependency(package, "UserSelection",
                                                             ToBePublished))]
                          ELSE IF found_no_dependencies
                          THEN [seen |-> visited.seen,
                                crates |-> Append(extended, unchanged_user_selection(package))]
                          ELSE [seen |-> visited.seen, crates |-> extended]
                  IN  dependencies_loop(c, Tail(crate_names), next, add_production_crates)

(***************************************************************************)
(* The delegate.                                                           *)
(***************************************************************************)
VARIABLES
    refs,                               \* [Option<Reference>; 2]
    objs,                               \* [Option<HashSet<ObjectId>>; 2]
    ambiguous_objects,                  \* [Option<HashSet<ObjectId>>; 2]
    idx,                                \* the current endpoint
    kind,                               \* Option<spec::Kind>
    err,                                \* Vec<Error>
    prefix,                             \* [Option<Prefix>; 2]
    last_call_was_disambiguate_prefix,  \* [bool; 2]
    opts,                               \* Options { refs_hint, object_kind_hint }
    pc,                                 \* where the resolution stands
    stage,                              \* what the driver emits next for the endpoint
    call,                               \* the most recent call and what it returned
    hist,                               \* the names of the calls made so far
    result,                             \* what into_err or into_rev_spec returned
    ctx,                                \* the crate::Context given to dependencies()
    traversal                           \* what dependencies() returned

vars ==
    <<refs, objs, ambiguous_objects, idx, kind, err, prefix,
      last_call_was_disambiguate_prefix, opts, pc, stage, call, hist, result,
      ctx, traversal>>

\* the publishing tool's traversal, which shares nothing with the delegate
publishing == <<ctx, traversal>>

delegate == <<refs, objs, ambiguous_objects, idx, kind, err, prefix,
              last_call_was_disambiguate_prefix, opts>>

Slots == {0, 1}

RefsHints == {"PreferObjectOnFullLengthHexShaUseRefOtherwise", "PreferObject", "PreferRef", "Fail"}
ObjectKindHints == {"Commit", "Committish", "Tree", "Treeish", "Blob"}
SpecKinds ==
    {"IncludeReachable", "ExcludeReachable", "RangeBetween", "ReachableToMergeBase",
     "IncludeReachableFromParents", "ExcludeReachableFromParents"}

\* the options the delegate is constructed with: every reference policy
\* without an object kind hint, and every object kind hint
OptionArgs ==
    { [refs_hint |-> h, object_kind_hint |-> None] : h \in RefsHints }
    \cup { [refs_hint |-> "PreferObject", object_kind_hint |-> Some(k)] : k \in ObjectKindHints }

\* the arguments the driver passes
PrefixArgs ==
    { PrefixFromHex(h) : h \in { <<1>>, <<1, 1>>, <<1, 2>>, <<2>>, <<2, 1>>, <<2, 1, 2>>, <<3>> } }
NameArgs == { <<16, 1>>, <<16, 2>>, <<16, 4>>, <<16, 9>> }
PathArgs == { <<"a">>, <<"a", "b">>, <<"a", "b", "c">> }
PeelTo(shape, k, path) == [shape |-> shape, kind |-> k, path |-> path]
PeelToArgs ==
    { PeelTo("ValidObject", "", <<>>), PeelTo("RecursiveTagObject", "", <<>>) }
    \cup { PeelTo("ObjectKind", k, <<>>) : k \in {"commit", "tree"} }
    \cup { PeelTo("Path", "", p) : p \in PathArgs }

NoArg == [name |-> <<>>, prefix |-> NoPrefix, kind |-> "", peel |-> PeelTo("", "", <<>>)]
NoCall == [op |-> "", arg |-> NoArg, ret |-> "", ref_lookups |-> <<>>]
Called(op, arg, ret, lookups) == [op |-> op, arg |-> arg, ret |-> ret, ref_lookups |-> lookups]

NoSpec == [variant |-> "", first |-> None, second |-> None]
NoResult == [tag |-> "", errors |-> <<>>, first_ref |-> None, second_ref |-> None, inner |-> NoSpec]

\* Delegate::new
Init ==
    /\ refs = [i \in Slots |-> None]
    /\ objs = [i \in Slots |-> None]
    /\ ambiguous_objects = [i \in Slots |-> None]
    /\ idx = 0
    /\ kind = None
    /\ err = <<>>
    /\ prefix = [i \in Slots |-> None]
    /\ last_call_was_disambiguate_prefix = [i \in Slots |-> FALSE]
    /\ opts \in OptionArgs
    /\ pc = "parsing"
    /\ stage = "revision"
    /\ call = NoCall
    /\ hist = <<>>
    /\ result = NoResult
    /\ ctx = NoContext
    /\ traversal = NoTraversal

\* What the driver does with the value a callback returned: it goes on
\* after Some(()), gives up after None; a panic ends the process.
Returned(op, arg, ret, lookups) ==
    /\ call' = Called(op, arg, ret, lookups)
    /\ hist' = Append(hist, op)
    /\ pc' = CASE ret = "Some" -> "parsing"
               [] ret = "None" -> "aborted"
               [] ret = "unit" -> "done"
               [] OTHER -> "panicked"
    /\ stage' = IF ret = "Some" /\ op \in {"find_ref", "disambiguate_prefix"}
                THEN "navigation"
                ELSE IF ret = "Some" /\ op = "kind"
                        /\ arg.kind \in {"RangeBetween", "ReachableToMergeBase"}
                THEN "revision"
                ELSE stage

\* a panic: a failed assert!, expect, todo!, unreachable! or an index out
\* of bounds; the delegate is not used afterwards
Panicked(op, arg) ==
    /\ Returned(op, arg, "panic", <<>>)
    /\ UNCHANGED delegate

\* the driver may make one more call
MayCall == pc = "parsing" /\ Len(hist) < MaxCalls

\* The driver names an endpoint with one revision callback and then
\* navigates from it; a kind of two endpoints makes it name the next one.
MayName == MayCall /\ stage = "revision"
MayNavigate == MayCall /\ stage = "navigation"
\* it signals completion once the last endpoint is named
MayFinish == pc = "parsing" /\ stage = "navigation"

\* unset_disambiguate_call with a fault: the flag is left as it is
unset_disambiguate_call_noop(flags, i) == flags

\* fn unset_disambiguate_call
unset_disambiguate_call(flags, i) == [flags EXCEPT ![i] = FALSE]

\* fn find_ref
find_ref(name) ==
    LET arg == [NoArg EXCEPT !.name = name]
        found == refs_find(name)
    IN
    /\ MayName
    /\ IF idx \notin Slots
       THEN Panicked("find_ref", arg)
       ELSE IF err /= <<>> /\ IsSome(refs[idx])
       THEN /\ last_call_was_disambiguate_prefix' =
                    unset_disambiguate_call(last_call_was_disambiguate_prefix, idx)
            /\ Returned("find_ref", arg, "None", <<>>)
            /\ UNCHANGED <<refs, objs, ambiguous_objects, idx, kind, err, prefix, opts>>
       ELSE IF found.ok
       THEN IF IsSome(refs[idx])
            THEN Panicked("find_ref", arg)
            ELSE /\ last_call_was_disambiguate_prefix' =
                        unset_disambiguate_call(last_call_was_disambiguate_prefix, idx)
                 /\ refs' = [refs EXCEPT ![idx] = Some(found.val)]
                 /\ Returned("find_ref", arg, "Some", <<name>>)
                 /\ UNCHANGED <<objs, ambiguous_objects, idx, kind, err, prefix, opts>>
       ELSE /\ last_call_was_disambiguate_prefix' =
                    unset_disambiguate_call(last_call_was_disambiguate_prefix, idx)
            /\ err' = Append(err, found.err)
            /\ Returned("find_ref", arg, "None", <<name>>)
            /\ UNCHANGED <<refs, objs, ambiguous_objects, idx, kind, prefix, opts>>
    /\ UNCHANGED <<result, publishing>>

\* the guard of the first arm of the match on opts.refs_hint in
\* disambiguate_prefix: the prefix has the full length of an id
IsFullLength(p, candidates) ==
    p.hex_len = len_in_hex(CHOOSE c \in candidates : TRUE)

\* KeepsObjectsOutright with a fault: every policy keeps the candidates
KeepsObjectsOutright_always(hint, p, candidates) == TRUE

\* KeepsObjectsOutright with a fault: the tie-policy asks the reference
\* store for a full-length prefix too
KeepsObjectsOutright_no_full_length(hint, p, candidates) == hint = "PreferObject"

\* whether disambiguate_prefix keeps the candidates without asking the
\* reference store
KeepsObjectsOutright(hint, p, candidates) ==
    \/ hint = "PreferObjectOnFullLengthHexShaUseRefOtherwise" /\ IsFullLength(p, candidates)
    \/ hint = "PreferObject"

\* prefix_not_found with a fault: no diagnostic is recorded
prefix_not_found_silent(errs, p) == errs

\* the Ok(None) arm of disambiguate_prefix: what it leaves in self.err
prefix_not_found(errs, p) == Append(errs, PrefixNotFound(p))

\* ref_and_object_tie with a fault: the ambiguity over the candidates is
\* not recorded
ref_and_object_tie_single(errs, p, ref, candidates) ==
    Append(errs, AmbiguousRefAndObject(p, ref))

\* the RefsHint::Fail arm of disambiguate_prefix: what it leaves in self.err
ref_and_object_tie(errs, p, ref, candidates) ==
    errs \o << AmbiguousRefAndObject(p, ref), ambiguous(candidates, p) >>

\* fn disambiguate_prefix
disambiguate_prefix(p) ==
    LET arg == [NoArg EXCEPT !.prefix = p]
        candidates == lookup_prefix(p)
        name == PrefixToString(p)
        found == refs_find(name)
        flags == [last_call_was_disambiguate_prefix EXCEPT ![idx] = TRUE]
    IN
    /\ MayName
    /\ IF idx \notin Slots
       THEN Panicked("disambiguate_prefix", arg)
       ELSE IF candidates = {}
       THEN /\ last_call_was_disambiguate_prefix' = flags
            /\ prefix' = [prefix EXCEPT ![idx] = Some(p)]
            /\ err' = prefix_not_found(err, p)
            /\ Returned("disambiguate_prefix", arg, "None", <<>>)
            /\ UNCHANGED <<refs, objs, ambiguous_objects, idx, kind, opts>>
       ELSE IF IsSome(objs[idx])
       THEN Panicked("disambiguate_prefix", arg)
       ELSE IF KeepsObjectsOutright(opts.refs_hint, p, candidates)
       THEN /\ last_call_was_disambiguate_prefix' = flags
            /\ prefix' = [prefix EXCEPT ![idx] = Some(p)]
            /\ ambiguous_objects' = [ambiguous_objects EXCEPT ![idx] = Some(candidates)]
            /\ objs' = [objs EXCEPT ![idx] = Some(candidates)]
            /\ Returned("disambiguate_prefix", arg, "Some", <<>>)
            /\ UNCHANGED <<refs, idx, kind, err, opts>>
       ELSE IF ~found.ok
       THEN /\ last_call_was_disambiguate_prefix' = flags
            /\ prefix' = [prefix EXCEPT ![idx] = Some(p)]
            /\ ambiguous_objects' = [ambiguous_objects EXCEPT ![idx] = Some(candidates)]
            /\ objs' = [objs EXCEPT ![idx] = Some(candidates)]
            /\ Returned("disambiguate_prefix", arg, "Some", <<name>>)
            /\ UNCHANGED <<refs, idx, kind, err, opts>>
       ELSE IF IsSome(refs[idx])
       THEN Panicked("disambiguate_prefix", arg)
       ELSE IF opts.refs_hint = "Fail"
       THEN /\ last_call_was_disambiguate_prefix' = flags
            /\ prefix' = [prefix EXCEPT ![idx] = Some(p)]
            /\ refs' = [refs EXCEPT ![idx] = Some(found.val)]
            /\ err' = ref_and_object_tie(err, p, found.val, candidates)
            /\ Returned("disambiguate_prefix", arg, "None", <<name>>)
            /\ UNCHANGED <<objs, ambiguous_objects, idx, kind, opts>>
       ELSE /\ last_call_was_disambiguate_prefix' = flags
            /\ prefix' = [prefix EXCEPT ![idx] = Some(p)]
            /\ refs' = [refs EXCEPT ![idx] = Some(found.val)]
            /\ Returned("disambiguate_prefix", arg, "Some", <<name>>)
            /\ UNCHANGED <<objs, ambiguous_objects, idx, kind, err, opts>>
    /\ UNCHANGED <<result, publishing>>

\* fn follow_refs_to_objects_if_needed: the candidate sets afterwards
follow_refs_to_objects_if_needed(rs, os) ==
    [i \in Slots |->
        IF IsSome(rs[i]) /\ IsNone(os[i]) /\ IsSome(ref_to_id(Unwrap(rs[i])))
        THEN Some({ Unwrap(ref_to_id(Unwrap(rs[i]))) })
        ELSE os[i]]

\* the filter of a sequence: its members in S, in their order
RECURSIVE Filter(_, _)
Filter(seq, S) ==
    IF seq = <<>> THEN <<>>
    ELSE IF Head(seq) \in S THEN <<Head(seq)>> \o Filter(Tail(seq), S)
    ELSE Filter(Tail(seq), S)

\* what peel_until computes for one member of the candidate set
peel_one(obj, to) ==
    CASE to.shape = "ValidObject" -> find_object(obj)
      [] to.shape = "ObjectKind" -> peel(obj, to.kind)
      [] to.shape = "Path" -> lookup_path(obj, to.path)

\* the loop over the replacements at the end of peel_until
\* apply_replacements with a fault: the replaced candidate stays in the set
RECURSIVE apply_replacements_keeps_find(_, _, _)
apply_replacements_keeps_find(S, order, to) ==
    IF order = <<>> THEN S
    ELSE apply_replacements_keeps_find(S \cup {peel_one(Head(order), to).val}, Tail(order), to)

RECURSIVE apply_replacements(_, _, _)
apply_replacements(S, order, to) ==
    IF order = <<>> THEN S
    ELSE apply_replacements((S \ {Head(order)}) \cup {peel_one(Head(order), to).val}, Tail(order), to)

\* remove_failing with a fault: the failing candidates stay
remove_failing_none(S, failing) == S

\* the loop over the errors at the end of peel_until: the candidates left
remove_failing(S, failing) == S \ failing

\* the second half of fn peel_until on the candidate set S: the diagnostics,
\* the candidate set and the value it can leave behind, one outcome for
\* each order in which S can be enumerated
peel_until_outcomes(S, errs, to) ==
    LET failing == { o \in S : ~peel_one(o, to).ok }
    IN  { LET errors == [k \in 1..Cardinality(failing) |->
                            peel_one(Filter(order, failing)[k], to).err]
              replacements == IF to.shape = "ValidObject" THEN <<>>
                              ELSE Filter(order, S \ failing)
          IN  [err |-> errs \o errors,
               objs |-> IF failing = S THEN S
                        ELSE apply_replacements(remove_failing(S, failing), replacements, to),
               ret |-> IF failing = S THEN "None" ELSE "Some"]
          : order \in Orders(S) }

\* fn peel_until
peel_until(to) ==
    LET arg == [NoArg EXCEPT !.peel = to]
        promoted == follow_refs_to_objects_if_needed(refs, objs)
    IN
    /\ MayNavigate
    /\ IF idx \notin Slots
       THEN Panicked("peel_until", arg)
       ELSE IF IsNone(promoted[idx])
       THEN /\ last_call_was_disambiguate_prefix' =
                    unset_disambiguate_call(last_call_was_disambiguate_prefix, idx)
            /\ objs' = promoted
            /\ Returned("peel_until", arg, "None", <<>>)
            /\ UNCHANGED <<refs, ambiguous_objects, idx, kind, err, prefix, opts>>
       ELSE IF to.shape = "RecursiveTagObject"
       THEN Panicked("peel_until", arg)
       ELSE \E out \in peel_until_outcomes(Unwrap(promoted[idx]), err, to) :
                /\ last_call_was_disambiguate_prefix' =
                        unset_disambiguate_call(last_call_was_disambiguate_prefix, idx)
                /\ err' = out.err
                /\ objs' = [promoted EXCEPT ![idx] = Some(out.objs)]
                /\ Returned("peel_until", arg, out.ret, <<>>)
                /\ UNCHANGED <<refs, ambiguous_objects, idx, kind, prefix, opts>>
    /\ UNCHANGED <<result, publishing>>

\* fn kind_implies_committish, for the kind k the delegate has recorded
kind_implies_committish(k) ==
    (IF IsSome(k) THEN Unwrap(k) ELSE "IncludeReachable") /= "IncludeReachable"

\* hint_check with a fault: the strict hints peel as the loose ones do
hint_check_strict_peels(obj, hint) ==
    CASE hint = "Treeish" -> peel(obj, "tree")
      [] hint = "Committish" -> peel(obj, "commit")
      [] hint = "Tree" -> peel(obj, "tree")
      [] hint = "Commit" -> peel(obj, "commit")
      [] hint = "Blob" -> peel(obj, "blob")

\* the check the fallback filter makes on one candidate: a peel for the
\* loose hints, the object's own kind for the strict ones
hint_check(obj, hint) ==
    CASE hint = "Treeish" -> peel(obj, "tree")
      [] hint = "Committish" -> peel(obj, "commit")
      [] hint = "Tree" -> require_object_kind(obj, "tree")
      [] hint = "Commit" -> require_object_kind(obj, "commit")
      [] hint = "Blob" -> require_object_kind(obj, "blob")

\* disambiguate_objects_by_fallback_hint with a fault: the failing
\* candidates are removed even when all of them fail
disambiguate_objects_by_fallback_hint_unguarded(flags, os, errs, i, hint) ==
    IF ~flags[i]
    THEN { [last |-> flags, objs |-> os, err |-> errs] }
    ELSE IF IsNone(os[i]) \/ IsNone(hint)
    THEN { [last |-> unset_disambiguate_call(flags, i), objs |-> os, err |-> errs] }
    ELSE LET S == Unwrap(os[i])
             failing == { o \in S : ~hint_check(o, Unwrap(hint)).ok }
         IN  { [last |-> unset_disambiguate_call(flags, i),
                objs |-> [os EXCEPT ![i] = Some(S \ failing)],
                err |-> errs \o [k \in 1..Cardinality(failing) |->
                                    hint_check(order[k], Unwrap(hint)).err]]
               : order \in Orders(failing) }

\* disambiguate_objects_by_fallback_hint with a fault: it runs whether or
\* not the last call on the endpoint was disambiguate_prefix
disambiguate_objects_by_fallback_hint_ignores_flag(flags, os, errs, i, hint) ==
    IF IsNone(os[i]) \/ IsNone(hint)
    THEN { [last |-> unset_disambiguate_call(flags, i), objs |-> os, err |-> errs] }
    ELSE LET S == Unwrap(os[i])
             failing == { o \in S : ~hint_check(o, Unwrap(hint)).ok }
         IN  { [last |-> unset_disambiguate_call(flags, i),
                objs |-> IF failing = S THEN os ELSE [os EXCEPT ![i] = Some(S \ failing)],
                err |-> errs \o [k \in 1..Cardinality(failing) |->
                                    hint_check(order[k], Unwrap(hint)).err]]
               : order \in Orders(failing) }

\* fn disambiguate_objects_by_fallback_hint, for a valid endpoint i: the
\* states it can leave behind, one for each order in which the candidate
\* set can be enumerated
disambiguate_objects_by_fallback_hint(flags, os, errs, i, hint) ==
    IF ~flags[i]
    THEN { [last |-> flags, objs |-> os, err |-> errs] }
    ELSE IF IsNone(os[i]) \/ IsNone(hint)
    THEN { [last |-> unset_disambiguate_call(flags, i), objs |-> os, err |-> errs] }
    ELSE LET S == Unwrap(os[i])
             failing == { o \in S : ~hint_check(o, Unwrap(hint)).ok }
         IN  { [last |-> unset_disambiguate_call(flags, i),
                objs |-> IF failing = S THEN os ELSE [os EXCEPT ![i] = Some(S \ failing)],
                err |-> errs \o [k \in 1..Cardinality(failing) |->
                                    hint_check(order[k], Unwrap(hint)).err]]
               : order \in Orders(failing) }

\* next_idx with a fault: every kind moves on to the next endpoint
next_idx_always(i, k) == i + 1

\* the end of fn kind: the endpoint index after kind(k)
next_idx(i, k) == IF k \in {"RangeBetween", "ReachableToMergeBase"} THEN i + 1 ELSE i

\* fn kind
kind_(k) ==
    LET arg == [NoArg EXCEPT !.kind = k]
    IN
    /\ MayCall
    /\ IF ~kind_implies_committish(Some(k))
       THEN /\ kind' = Some(k)
            /\ idx' = next_idx(idx, k)
            /\ Returned("kind", arg, "Some", <<>>)
            /\ UNCHANGED <<refs, objs, ambiguous_objects, err, prefix,
                           last_call_was_disambiguate_prefix, opts>>
       ELSE IF idx \notin Slots
       THEN Panicked("kind", arg)
       ELSE \E out \in disambiguate_objects_by_fallback_hint(
                            last_call_was_disambiguate_prefix, objs, err, idx, Some("Committish")) :
                /\ kind' = Some(k)
                /\ last_call_was_disambiguate_prefix' = out.last
                /\ objs' = out.objs
                /\ err' = out.err
                /\ idx' = next_idx(idx, k)
                /\ Returned("kind", arg, "Some", <<>>)
                /\ UNCHANGED <<refs, ambiguous_objects, prefix, opts>>
    /\ UNCHANGED <<result, publishing>>

\* done_hint with a fault: the commit-ish hint is always passed
done_hint_always_committish(k, o) == Some("Committish")

\* the hint done passes to the fallback filter
done_hint(k, o) == IF kind_implies_committish(k) THEN Some("Committish") ELSE o.object_kind_hint

\* fn done
done ==
    LET promoted == follow_refs_to_objects_if_needed(refs, objs)
    IN
    /\ MayFinish
    /\ IF idx \notin Slots
       THEN Panicked("done", NoArg)
       ELSE \E out \in disambiguate_objects_by_fallback_hint(
                            last_call_was_disambiguate_prefix, promoted, err, idx,
                            done_hint(kind, opts)) :
                /\ last_call_was_disambiguate_prefix' = out.last
                /\ objs' = out.objs
                /\ err' = out.err
                /\ Returned("done", NoArg, "unit", <<>>)
                /\ UNCHANGED <<refs, ambiguous_objects, idx, kind, prefix, opts>>
    /\ UNCHANGED <<result, publishing>>

\* unset_disambiguate_call(); todo!()
todo(op, may) ==
    /\ may
    /\ Panicked(op, NoArg)
    /\ UNCHANGED <<result, publishing>>

\* fn reflog
reflog == todo("reflog", MayName)

\* fn nth_checked_out_branch
nth_checked_out_branch == todo("nth_checked_out_branch", MayName)

\* fn sibling_branch
sibling_branch == todo("sibling_branch", MayName)

\* fn traverse
traverse == todo("traverse", MayNavigate)

\* fn find
find == todo("find", MayNavigate)

\* fn index_lookup
index_lookup == todo("index_lookup", MayNavigate)

\* the ambiguity diagnostics into_err puts in front of the list: one for
\* every endpoint whose recorded candidates are more than one
ambiguities(i) ==
    IF /\ IsSome(ambiguous_objects[i])
       /\ Cardinality(Unwrap(ambiguous_objects[i])) > 1
       /\ IsSome(prefix[i])
    THEN << ambiguous(Unwrap(ambiguous_objects[i]), Unwrap(prefix[i])) >>
    ELSE <<>>

\* fn into_err: the reversed diagnostics are inserted at the front one by
\* one, which leaves them in the order of the endpoints
into_err ==
    /\ pc \in {"aborted", "done"}
    /\ result' = [NoResult EXCEPT !.tag = "Err",
                                  !.errors = from_errors(ambiguities(0) \o ambiguities(1) \o err)]
    /\ pc' = "finished"
    /\ call' = Called("into_err", NoArg, "Err", <<>>)
    /\ UNCHANGED <<delegate, stage, hist, publishing>>

\* kind_to_spec with a fault: the two endpoints are swapped
kind_to_spec_swapped(k, first, second) ==
    LET kk == IF IsSome(k) THEN Unwrap(k) ELSE "IncludeReachable"
    IN  CASE kk = "IncludeReachable" -> [variant |-> "Include", first |-> first, second |-> None]
          [] kk = "ExcludeReachable" -> [variant |-> "Exclude", first |-> first, second |-> None]
          [] kk = "RangeBetween" -> [variant |-> "Range", first |-> second, second |-> first]
          [] kk = "ReachableToMergeBase" -> [variant |-> "Merge", first |-> second, second |-> first]
          [] kk = "IncludeReachableFromParents" ->
                [variant |-> "IncludeOnlyParents", first |-> first, second |-> None]
          [] kk = "ExcludeReachableFromParents" ->
                [variant |-> "ExcludeFromParents", first |-> first, second |-> None]

\* kind_to_spec with a fault: a kind that was never set counts as
\* ExcludeReachable
kind_to_spec_default_exclude(k, first, second) ==
    LET kk == IF IsSome(k) THEN Unwrap(k) ELSE "ExcludeReachable"
    IN  CASE kk = "IncludeReachable" -> [variant |-> "Include", first |-> first, second |-> None]
          [] kk = "ExcludeReachable" -> [variant |-> "Exclude", first |-> first, second |-> None]
          [] kk = "RangeBetween" -> [variant |-> "Range", first |-> first, second |-> second]
          [] kk = "ReachableToMergeBase" -> [variant |-> "Merge", first |-> first, second |-> second]
          [] kk = "IncludeReachableFromParents" ->
                [variant |-> "IncludeOnlyParents", first |-> first, second |-> None]
          [] kk = "ExcludeReachableFromParents" ->
                [variant |-> "ExcludeFromParents", first |-> first, second |-> None]

\* fn kind_to_spec
kind_to_spec(k, first, second) ==
    LET kk == IF IsSome(k) THEN Unwrap(k) ELSE "IncludeReachable"
    IN  CASE kk = "IncludeReachable" -> [variant |-> "Include", first |-> first, second |-> None]
          [] kk = "ExcludeReachable" -> [variant |-> "Exclude", first |-> first, second |-> None]
          [] kk = "RangeBetween" -> [variant |-> "Range", first |-> first, second |-> second]
          [] kk = "ReachableToMergeBase" -> [variant |-> "Merge", first |-> first, second |-> second]
          [] kk = "IncludeReachableFromParents" ->
                [variant |-> "IncludeOnlyParents", first |-> first, second |-> None]
          [] kk = "ExcludeReachableFromParents" ->
                [variant |-> "ExcludeFromParents", first |-> first, second |-> None]

\* the endpoints kind_to_spec unwraps with expect("set by parser")
needs_second(k) == IsSome(k) /\ Unwrap(k) \in {"RangeBetween", "ReachableToMergeBase"}

\* the number of candidates of an endpoint, 1 standing for an absent set
candidate_count(os, i) == IF IsSome(os[i]) THEN Cardinality(Unwrap(os[i])) ELSE 1

\* first_stop with a fault: only the first endpoint is looked at
first_stop_first_only(os) ==
    IF candidate_count(os, 0) /= 1 THEN Some(0) ELSE None

\* the first endpoint zero_or_one_objects_or_ambguity_err stops at, if any
first_stop(os) ==
    IF candidate_count(os, 0) /= 1 THEN Some(0)
    ELSE IF candidate_count(os, 1) /= 1 THEN Some(1)
    ELSE None

\* the only member of a one-element candidate set
the_one(o) == IF IsSome(o) THEN Some(CHOOSE x \in Unwrap(o) : TRUE) ELSE None

\* fn into_rev_spec
into_rev_spec ==
    /\ pc = "done"
    /\ call' = Called("into_rev_spec", NoArg, "", <<>>)
    /\ IF IsSome(first_stop(objs))
       THEN LET i == Unwrap(first_stop(objs))
            IN  IF Unwrap(objs[i]) = {} \/ IsNone(prefix[i])
                THEN /\ result' = [NoResult EXCEPT !.tag = "panic"]
                     /\ pc' = "panicked"
                ELSE /\ result' = [NoResult EXCEPT
                            !.tag = "Err",
                            !.errors = from_errors(
                                <<ambiguous(Unwrap(objs[i]), Unwrap(prefix[i]))>> \o err)]
                     /\ pc' = "finished"
       ELSE IF IsNone(objs[0]) \/ (needs_second(kind) /\ IsNone(objs[1]))
       THEN /\ result' = [NoResult EXCEPT !.tag = "panic"]
            /\ pc' = "panicked"
       ELSE /\ result' = [NoResult EXCEPT
                    !.tag = "Ok",
                    !.first_ref = refs[0],
                    !.second_ref = refs[1],
                    !.inner = kind_to_spec(kind, the_one(objs[0]), the_one(objs[1]))]
            /\ pc' = "finished"
    /\ UNCHANGED <<delegate, stage, hist, publishing>>

Next ==
    \/ \E name \in NameArgs : find_ref(name)
    \/ \E p \in PrefixArgs : disambiguate_prefix(p)
    \/ \E to \in PeelToArgs : peel_until(to)
    \/ \E k \in SpecKinds : kind_(k)
    \/ done
    \/ reflog
    \/ nth_checked_out_branch
    \/ sibling_branch
    \/ traverse
    \/ find
    \/ index_lookup
    \/ into_err
    \/ into_rev_spec

Spec == Init /\ [][Next]_vars

(***************************************************************************)
(* The publishing tool asks once for the crates to publish.                *)
(***************************************************************************)
InitTraverse ==
    /\ refs = [i \in Slots |-> None]
    /\ objs = [i \in Slots |-> None]
    /\ ambiguous_objects = [i \in Slots |-> None]
    /\ idx = 0
    /\ kind = None
    /\ err = <<>>
    /\ prefix = [i \in Slots |-> None]
    /\ last_call_was_disambiguate_prefix = [i \in Slots |-> FALSE]
    /\ opts = [refs_hint |-> "PreferObject", object_kind_hint |-> None]
    /\ pc = "parsing"
    /\ stage = "revision"
    /\ call = NoCall
    /\ hist = <<>>
    /\ result = NoResult
    /\ ctx \in Contexts
    /\ traversal = NoTraversal

\* pub fn dependencies(ctx, add_production_crates, bump_when_needed); the
\* bump of a version is not part of the entries kept here
dependencies(add_production_crates) ==
    /\ traversal.tag = ""
    /\ LET returned == dependencies_loop(ctx, ctx.crate_names, [seen |-> {}, crates |-> <<>>],
                                         add_production_crates)
       IN  traversal' = [tag |-> returned.tag, crates |-> returned.crates,
                         add_production_crates |-> add_production_crates]
    /\ UNCHANGED <<delegate, pc, stage, call, hist, result, ctx>>

NextTraverse == \E add_production_crates \in BOOLEAN : dependencies(add_production_crates)

SpecTraverse == InitTraverse /\ [][NextTraverse]_vars

(***************************************************************************)
(* Properties.                                                             *)
(***************************************************************************)
\* a callback named op returns in this step
Step(op) == hist' /= hist /\ call'.op = op

\* the endpoints whose candidate set still has two or more members
AmbiguousSlots(os) == { i \in Slots : IsSome(os[i]) /\ Cardinality(Unwrap(os[i])) >= 2 }

\* the sequence lists exactly the members of S, in ascending order of id
ListsSorted(seq, S) ==
    /\ Len(seq) = Cardinality(S)
    /\ { seq[k] : k \in 1..Len(seq) } = S
    /\ \A j, k \in 1..Len(seq) : j < k => IdLess(seq[j], seq[k])

\* the sequence `after` is `before` with one diagnostic of check(m) added
\* for every member m of `failing`, in some order
AppendsOnePer(before, after, failing, check(_)) ==
    \E order \in Orders(failing) :
        after = before \o [k \in 1..Cardinality(failing) |-> check(order[k]).err]

C2_NoEmptyCandidateSet ==
    \A i \in Slots : IsSome(objs[i]) => Unwrap(objs[i]) /= {}

\* a candidate set was narrowed, with the diagnostics that explain it, and
\* is still not empty
C2_Witness ==
    \E i \in Slots :
        /\ IsSome(objs[i]) /\ IsSome(ambiguous_objects[i])
        /\ Unwrap(objs[i]) /= {}
        /\ Unwrap(objs[i]) \subseteq Unwrap(ambiguous_objects[i])
        /\ Unwrap(objs[i]) /= Unwrap(ambiguous_objects[i])
        /\ err /= <<>>

\* the resolution consisted of disambiguate_prefix on endpoint 0 and done,
\* and into_rev_spec has returned
OnlyPrefixThenDone ==
    /\ call.op = "into_rev_spec"
    /\ hist = <<"disambiguate_prefix", "done">>
    /\ IsSome(prefix[0])

\* C3: after disambiguate_prefix(p) and done alone, with p matching two or
\* more objects, no reference adopted and no object kind hint configured,
\* into_rev_spec fails and its error list has an AmbiguousPrefix diagnostic
\* for p that lists exactly the matching objects, sorted by id.
C3_AmbiguousPrefixAtFinalization ==
    ( /\ OnlyPrefixThenDone
      /\ Cardinality(lookup_prefix(Unwrap(prefix[0]))) >= 2
      /\ IsNone(refs[0])
      /\ IsNone(opts.object_kind_hint) )
    => /\ result.tag = "Err"
       /\ \E k \in 1..Len(result.errors) :
            /\ result.errors[k].type = "AmbiguousPrefix"
            /\ result.errors[k].prefix = Unwrap(prefix[0])
            /\ ListsSorted(result.errors[k].info, lookup_prefix(Unwrap(prefix[0])))

\* the case of C3 has happened, with three matching objects
C3_Witness ==
    /\ OnlyPrefixThenDone
    /\ Cardinality(lookup_prefix(Unwrap(prefix[0]))) = 3
    /\ IsNone(refs[0])
    /\ IsNone(opts.object_kind_hint)
    /\ result.tag = "Err"

\* C4: a prefix matching exactly one object x, for which no reference is
\* adopted, makes disambiguate_prefix succeed with the candidate set {x};
\* and disambiguate_prefix, done, into_rev_spec with the default kind
\* yield the single-object include spec of x.
C4_UniquePrefixResolves ==
    /\ ( /\ call.op = "disambiguate_prefix"
         /\ pc /= "panicked"
         /\ Cardinality(lookup_prefix(call.arg.prefix)) = 1
         /\ IsNone(refs[idx]) )
       => /\ call.ret = "Some"
          /\ objs[idx] = Some(lookup_prefix(call.arg.prefix))
    /\ ( /\ OnlyPrefixThenDone
         /\ Cardinality(lookup_prefix(Unwrap(prefix[0]))) = 1
         /\ IsNone(refs[0]) )
       => /\ result.tag = "Ok"
          /\ result.inner.variant = "Include"
          /\ IsSome(result.inner.first)
          /\ lookup_prefix(Unwrap(prefix[0])) = { Unwrap(result.inner.first) }
          /\ result.inner.second = None
          /\ result.first_ref = None

\* a prefix shorter than an id that matches one object, while a shorter
\* prefix of it matches more, was resolved to the include spec
C4_Witness ==
    /\ OnlyPrefixThenDone
    /\ Cardinality(lookup_prefix(Unwrap(prefix[0]))) = 1
    /\ Unwrap(prefix[0]).hex_len = 2
    /\ Cardinality(lookup_prefix(PrefixFromHex(SubSeq(Unwrap(prefix[0]).bytes, 1, 1)))) > 1
    /\ IsNone(refs[0])
    /\ result.tag = "Ok"

\* the callbacks that name an endpoint
Naming == {"find_ref", "disambiguate_prefix"}

\* the objects an endpoint was named with: the target of its reference, or
\* the objects its prefix matches
NamedObjects(i) ==
    IF IsSome(refs[i])
    THEN { id \in AllIds : ref_to_id(Unwrap(refs[i])) = Some(id) }
    ELSE IF IsSome(prefix[i]) THEN lookup_prefix(Unwrap(prefix[i])) ELSE {}

\* the resolution was <first endpoint>, kind(RangeBetween), <second
\* endpoint>, done, both endpoints came out as single ids, and
\* into_rev_spec has returned
RangeOfTwoEndpoints ==
    /\ call.op = "into_rev_spec"
    /\ Len(hist) = 4
    /\ hist[1] \in Naming /\ hist[2] = "kind" /\ hist[3] \in Naming /\ hist[4] = "done"
    /\ kind = Some("RangeBetween")
    /\ \A i \in Slots : IsSome(objs[i]) /\ Cardinality(Unwrap(objs[i])) = 1

\* a callback acting on one endpoint leaves what the other endpoint was
\* named with alone; it may only give the other endpoint the target of its
\* own reference as its candidate
OtherSlotKept ==
    (hist' /= hist /\ idx \in Slots /\ pc' /= "panicked") =>
        LET other == 1 - idx
        IN  /\ refs'[other] = refs[other]
            /\ prefix'[other] = prefix[other]
            /\ \/ objs'[other] = objs[other]
               \/ /\ IsNone(objs[other]) /\ IsSome(refs[other])
                  /\ objs'[other] = Some(NamedObjects(other))

\* C5: for <first endpoint>, kind(RangeBetween), <second endpoint>, done
\* with both endpoints resolved to single ids, into_rev_spec returns the
\* range whose `from` is the id of the endpoint named first (slot 0) and
\* whose `to` is the id of the endpoint named after the kind callback
\* (slot 1); no callback on one endpoint overwrites the other.
C5_RangeKeepsOrder ==
    /\ [](RangeOfTwoEndpoints =>
            /\ result.tag = "Ok"
            /\ result.inner.variant = "Range"
            /\ objs[0] = Some({ Unwrap(result.inner.first) })
            /\ objs[1] = Some({ Unwrap(result.inner.second) })
            /\ Unwrap(result.inner.first) \in NamedObjects(0)
            /\ Unwrap(result.inner.second) \in NamedObjects(1))
    /\ [][OtherSlotKept]_vars

\* a range of two different ids was returned
C5_Witness ==
    /\ RangeOfTwoEndpoints
    /\ result.tag = "Ok"
    /\ result.inner.first /= result.inner.second

\* disambiguate_prefix returns in this step, for a prefix that matches
\* objects, on an endpoint that exists
PrefixStep == Step("disambiguate_prefix") /\ idx \in Slots /\ pc' /= "panicked"
StepPrefix == call'.arg.prefix
StepCandidates == lookup_prefix(call'.arg.prefix)
StepRefName == PrefixToString(call'.arg.prefix)

\* C6: under fail-on-tie, disambiguate_prefix(p) that finds matching
\* objects while a reference named p exists fails, keeps the reference in
\* the slot and appends exactly an AmbiguousRefAndObject and then an
\* AmbiguousPrefix over the matched candidates; the resolution fails.
C6_FailOnTie ==
    [][ ( /\ PrefixStep
          /\ opts.refs_hint = "Fail"
          /\ StepCandidates /= {}
          /\ StepRefName \in RefNames )
        => /\ call'.ret = "None"
           /\ pc' = "aborted"
           /\ IsSome(refs'[idx])
           /\ Unwrap(refs'[idx]).name = StepRefName
           /\ Len(err') = Len(err) + 2
           /\ SubSeq(err', 1, Len(err)) = err
           /\ err'[Len(err) + 1].type = "AmbiguousRefAndObject"
           /\ err'[Len(err) + 1].prefix = StepPrefix
           /\ err'[Len(err) + 1].name = StepRefName
           /\ err'[Len(err) + 2].type = "AmbiguousPrefix"
           /\ err'[Len(err) + 2].prefix = StepPrefix
           /\ ListsSorted(err'[Len(err) + 2].info, StepCandidates)
      ]_vars

\* the tie was reported for a prefix of two objects
C6_Witness ==
    /\ call.op = "disambiguate_prefix"
    /\ opts.refs_hint = "Fail"
    /\ call.ret = "None"
    /\ Cardinality(lookup_prefix(call.arg.prefix)) = 2
    /\ Len(err) = 2
    /\ IsSome(refs[0])

\* the policies under which a reference named after the prefix is adopted
\* without a diagnostic
FavorsRef(p) ==
    \/ opts.refs_hint = "PreferRef"
    \/ /\ opts.refs_hint = "PreferObjectOnFullLengthHexShaUseRefOtherwise"
       /\ p.hex_len < Len(p.bytes)

\* C7: under prefer-ref, or the tie-policy with a prefix shorter than an
\* id, disambiguate_prefix(p) that finds matching objects while a reference
\* named p exists succeeds, holds that reference, holds no candidate set
\* and adds no diagnostic; when there is no such reference (prefer-ref,
\* tie-policy or fail-on-tie) it succeeds, keeps the candidate set and adds
\* no diagnostic.
C7_RefAdoptedOrObjectsKept ==
    [][ (PrefixStep /\ StepCandidates /= {}) =>
          /\ (FavorsRef(StepPrefix) /\ StepRefName \in RefNames) =>
                /\ call'.ret = "Some"
                /\ IsSome(refs'[idx])
                /\ Unwrap(refs'[idx]).name = StepRefName
                /\ objs'[idx] = None
                /\ err' = err
          /\ ( /\ opts.refs_hint \in {"PreferRef", "Fail",
                                      "PreferObjectOnFullLengthHexShaUseRefOtherwise"}
               /\ StepRefName \notin RefNames ) =>
                /\ call'.ret = "Some"
                /\ objs'[idx] = Some(StepCandidates)
                /\ refs'[idx] = refs[idx]
                /\ err' = err
      ]_vars

\* a reference named after a prefix of two objects was adopted under the
\* tie-policy
C7_Witness ==
    /\ call.op = "disambiguate_prefix"
    /\ call.ret = "Some"
    /\ opts.refs_hint = "PreferObjectOnFullLengthHexShaUseRefOtherwise"
    /\ Cardinality(lookup_prefix(call.arg.prefix)) = 2
    /\ IsSome(refs[idx]) /\ IsNone(objs[idx])
    /\ err = <<>>

\* the policies under which the candidates are kept without asking the
\* reference store
FavorsObject(p) ==
    \/ opts.refs_hint = "PreferObject"
    \/ /\ opts.refs_hint = "PreferObjectOnFullLengthHexShaUseRefOtherwise"
       /\ p.hex_len = Len(p.bytes)

\* C8: under prefer-object, or the tie-policy with a prefix as long as an
\* id, disambiguate_prefix that finds matching objects does not consult
\* the reference store, succeeds, stores exactly the candidates the object
\* store returned and leaves the slot's reference unchanged, even when a
\* reference named after the prefix exists; the full-length hex form of an
\* id in the store gives the one-element set of that id.
C8_ObjectsKeptOutright ==
    [][ (PrefixStep /\ StepCandidates /= {} /\ FavorsObject(StepPrefix)) =>
          /\ call'.ret = "Some"
          /\ call'.ref_lookups = <<>>
          /\ objs'[idx] = Some(StepCandidates)
          /\ refs' = refs
          /\ err' = err
          /\ (StepPrefix.hex_len = Len(StepPrefix.bytes) /\ StepPrefix.bytes \in ObjectIds) =>
                objs'[idx] = Some({ StepPrefix.bytes })
      ]_vars

\* a full-length prefix that is also the name of a reference was kept as
\* an object under the tie-policy
C8_Witness ==
    /\ call.op = "disambiguate_prefix"
    /\ call.ret = "Some"
    /\ opts.refs_hint = "PreferObjectOnFullLengthHexShaUseRefOtherwise"
    /\ call.arg.prefix.hex_len = Len(call.arg.prefix.bytes)
    /\ PrefixToString(call.arg.prefix) \in RefNames
    /\ objs[idx] = Some({ call.arg.prefix.bytes })
    /\ IsNone(refs[idx])

\* C9: disambiguate_prefix(p) that finds no matching object fails, appends
\* exactly one PrefixNotFound for p, does not consult the reference store
\* and leaves the candidate sets and references of both slots unchanged.
C9_PrefixNotFound ==
    [][ (PrefixStep /\ StepCandidates = {}) =>
          /\ call'.ret = "None"
          /\ pc' = "aborted"
          /\ Len(err') = Len(err) + 1
          /\ SubSeq(err', 1, Len(err)) = err
          /\ err'[Len(err')].type = "PrefixNotFound"
          /\ err'[Len(err')].prefix = StepPrefix
          /\ call'.ref_lookups = <<>>
          /\ objs' = objs
          /\ ambiguous_objects' = ambiguous_objects
          /\ refs' = refs
      ]_vars

\* a prefix without a match was reported on the second endpoint, the
\* first one holding candidates
C9_Witness ==
    /\ call.op = "disambiguate_prefix"
    /\ call.ret = "None"
    /\ lookup_prefix(call.arg.prefix) = {}
    /\ idx = 1
    /\ IsSome(objs[0])
    /\ err /= <<>>

\* peel_until returns in this step, in one of its three shapes, on an
\* endpoint that has a candidate set once references are followed
PeelStep ==
    /\ Step("peel_until") /\ idx \in Slots /\ pc' /= "panicked"
    /\ call'.arg.peel.shape \in {"ValidObject", "ObjectKind", "Path"}
    /\ IsSome(follow_refs_to_objects_if_needed(refs, objs)[idx])
PeelSet == Unwrap(follow_refs_to_objects_if_needed(refs, objs)[idx])
PeelCheck(m) == peel_one(m, call'.arg.peel)
PeelFailing == { m \in PeelSet : ~PeelCheck(m).ok }
\* what the succeeding members stand for afterwards: themselves for the
\* valid-object check, the id they were peeled or resolved to otherwise
PeelResults ==
    IF call'.arg.peel.shape = "ValidObject"
    THEN PeelSet \ PeelFailing
    ELSE { PeelCheck(m).val : m \in PeelSet \ PeelFailing }

\* what C10 and its amendment have in common
PeelOutcome ==
    /\ call'.ret = "Some" <=> PeelFailing /= PeelSet
    /\ call'.ret = "None" <=> PeelFailing = PeelSet
    /\ AppendsOnePer(err, err', PeelFailing, PeelCheck)
    /\ PeelFailing = PeelSet => objs'[idx] = Some(PeelSet)

\* C10 as stated: peel_until on a candidate set S succeeds iff a member of
\* S succeeds, appends one diagnostic per failing member, leaves S as it
\* is on total failure, and on partial success the set holds no failing
\* member afterwards.
C10_Original ==
    [][ PeelStep =>
          /\ PeelOutcome
          /\ PeelFailing /= PeelSet =>
                /\ IsSome(objs'[idx])
                /\ Unwrap(objs'[idx]) \cap PeelFailing = {}
      ]_vars

\* C10, amended: peel_until on a candidate set S succeeds iff a member of
\* S succeeds, appends one diagnostic per failing member, leaves S as it
\* is on total failure, and on partial success the set afterwards is not
\* empty and holds only what succeeding members stand for: a failing
\* member is in it only as the id a succeeding member resolved to.
C10_Amended ==
    [][ PeelStep =>
          /\ PeelOutcome
          /\ PeelFailing /= PeelSet =>
                /\ IsSome(objs'[idx])
                /\ Unwrap(objs'[idx]) /= {}
                /\ Unwrap(objs'[idx]) \subseteq PeelResults
      ]_vars

\* a peel_until in which some members failed and others succeeded
C10_Witness ==
    /\ call.op = "peel_until"
    /\ call.ret = "Some"
    /\ Len(err) >= 2
    /\ IsSome(objs[idx])
    /\ call.arg.peel.shape = "Path"

\* C11: after a successful peel_until to a kind or to a path on a
\* candidate set S, the candidate set is exactly the set of the results of
\* the members of S that succeeded, whatever the order in which S is
\* enumerated, also when the result of one member is another member of S.
C11_ReplacedByResults ==
    [][ ( /\ PeelStep
          /\ call'.arg.peel.shape \in {"ObjectKind", "Path"}
          /\ call'.ret = "Some" )
        => objs'[idx] = Some(PeelResults)
      ]_vars

\* the fallback filter is entered in this step: by a kind callback whose
\* kind implies a commit-like endpoint, or by done
FilterStep ==
    /\ \/ Step("kind") /\ kind_implies_committish(kind')
       \/ Step("done")
    /\ idx \in Slots /\ pc' /= "panicked"
\* the hint the filter is entered with
FilterHint == IF call'.op = "kind" THEN Some("Committish") ELSE done_hint(kind, opts)
\* the candidate sets the filter is entered with: done follows the
\* references first
FilterSets == IF call'.op = "done" THEN follow_refs_to_objects_if_needed(refs, objs) ELSE objs
\* the filter runs on a candidate set: the flag is set, a hint is present
FilterRuns ==
    /\ FilterStep
    /\ last_call_was_disambiguate_prefix[idx]
    /\ IsSome(FilterHint)
    /\ IsSome(FilterSets[idx])
FilterSet == Unwrap(FilterSets[idx])
LooseHints == {"Treeish", "Committish"}
\* the object kind a hint asks for
HintKind(h) ==
    CASE h \in {"Tree", "Treeish"} -> "tree"
      [] h \in {"Commit", "Committish"} -> "commit"
      [] h = "Blob" -> "blob"
\* a member fails a loose hint iff it cannot be peeled to the kind, a
\* strict hint iff its own kind is another one
FailsHint(m, h) ==
    IF h \in LooseHints
    THEN ~peel(m, HintKind(h)).ok
    ELSE m \notin ObjectIds \/ ObjectStore[m].kind /= HintKind(h)
FilterFailing == { m \in FilterSet : FailsHint(m, Unwrap(FilterHint)) }
\* err' is err followed by one diagnostic for each member of `failing`
OneDiagnosticPer(failing) ==
    /\ Len(err') = Len(err) + Cardinality(failing)
    /\ SubSeq(err', 1, Len(err)) = err
    /\ { err'[k].oid : k \in (Len(err) + 1)..Len(err') } = failing

\* C12: when the fallback filter runs on a candidate set S and at least one
\* but not all members fail the hint, the candidate set becomes S without
\* the failing members, the surviving ids as they were, and exactly one
\* diagnostic per failing member is appended; a member fails a loose hint
\* iff it cannot be peeled to tree/commit, a strict hint iff its kind is
\* not the hint's.
C12_FilterKeepsSurvivors ==
    [][ (FilterRuns /\ FilterFailing /= {} /\ FilterFailing /= FilterSet) =>
          /\ objs'[idx] = Some(FilterSet \ FilterFailing)
          /\ OneDiagnosticPer(FilterFailing)
      ]_vars

\* done narrowed a commit, a blob and a tag of the commit to the commit
\* under the strict hint Commit, with a diagnostic for each of the others
C12_Witness ==
    /\ call.op = "done"
    /\ opts.object_kind_hint = Some("Commit")
    /\ IsSome(ambiguous_objects[0]) /\ Cardinality(Unwrap(ambiguous_objects[0])) = 3
    /\ objs[0] = Some({ <<2, 1, 1>> })
    /\ Len(err) = 2
    /\ \A k \in 1..2 : err[k].type = "ObjectKind"

\* C13: when the fallback filter is entered by a kind callback that implies
\* a commit-like endpoint and every candidate of the current endpoint
\* fails the hint, every failure is pushed as a diagnostic and the kind
\* callback reports failure to the driver.
C13_KindFailsWhenAllFail ==
    [][ (FilterRuns /\ call'.op = "kind" /\ FilterFailing = FilterSet) =>
          /\ OneDiagnosticPer(FilterFailing)
          /\ call'.ret = "None"
          /\ pc' = "aborted"
      ]_vars

\* the hint of highest rank: the configured object kind when there is one,
\* else the commit-ish implication of the kind, else none
ConfiguredFirstHint ==
    IF IsSome(opts.object_kind_hint) THEN opts.object_kind_hint
    ELSE IF kind_implies_committish(kind) THEN Some("Committish")
    ELSE None
\* what the filter leaves behind when it runs with hint h on the current
\* endpoint: nothing happens without a hint; otherwise the members failing
\* h are reported and, unless all fail, removed
FilteredWith(h) ==
    IF IsNone(h)
    THEN objs' = FilterSets /\ err' = err
    ELSE LET failing == { m \in FilterSet : FailsHint(m, Unwrap(h)) }
         IN  /\ objs'[idx] = Some(IF failing = FilterSet THEN FilterSet ELSE FilterSet \ failing)
             /\ OneDiagnosticPer(failing)
             /\ \A k \in (Len(err) + 1)..Len(err') : err'[k].expected = HintKind(Unwrap(h))

\* C14: at done the fallback filter is given the configured object kind
\* when one is set, the commit-ish implication of the kind only when none
\* is set, and is skipped when neither exists; with a configured tree or
\* blob and a kind other than the single-object include it filters by the
\* configured kind, not by committish.
C14_ConfiguredHintFirst ==
    [][ ( /\ Step("done") /\ idx \in Slots /\ pc' /= "panicked"
          /\ last_call_was_disambiguate_prefix[idx]
          /\ IsSome(FilterSets[idx]) )
        => FilteredWith(ConfiguredFirstHint)
      ]_vars

\* C15: when the flag of the current endpoint is clear (find_ref or
\* peel_until has run on it since its last disambiguate_prefix), kind(k)
\* for any k and done leave the endpoint's candidate set and the error
\* list as the filter found them, whatever the hint.
C15_FilterNeedsFlag ==
    [][ ( /\ Step("kind") \/ Step("done")
          /\ idx \in Slots /\ pc' /= "panicked"
          /\ ~last_call_was_disambiguate_prefix[idx] )
        => /\ objs'[idx] = FilterSets[idx]
           /\ err' = err
      ]_vars

\* a kind implying a commit-like endpoint came after disambiguate_prefix
\* and peel_until, and the blob among the candidates is still there
C15_Witness ==
    /\ hist = <<"disambiguate_prefix", "peel_until", "kind">>
    /\ kind = Some("ExcludeReachable")
    /\ IsSome(objs[0]) /\ <<2, 1, 2>> \in Unwrap(objs[0])
    /\ err = <<>>

\* C16: after done, every endpoint slot that holds a resolved reference
\* also holds a candidate set that is not empty, for every reference the
\* reference store can return, so into_rev_spec never finds an endpoint
\* named by a reference without an object id.
C16_RefsHaveObjectsAfterDone ==
    (call.op \in {"done", "into_rev_spec"} /\ call.ret /= "panic") =>
        /\ \A i \in Slots :
              IsSome(refs[i]) => IsSome(objs[i]) /\ Unwrap(objs[i]) /= {}
        /\ (IsSome(refs[0]) /\ call.op = "into_rev_spec") => result.tag /= "panic"

\* the endpoints whose prefix matched two or more objects and whose
\* candidate set has been narrowed to exactly one id since
NarrowedToOne ==
    { i \in Slots :
        /\ IsSome(ambiguous_objects[i]) /\ Cardinality(Unwrap(ambiguous_objects[i])) >= 2
        /\ IsSome(objs[i]) /\ Cardinality(Unwrap(objs[i])) = 1
        /\ IsSome(prefix[i]) }
\* the AmbiguousPrefix diagnostics of a list that the terminal operation
\* added: those in front of the accumulated ones
AddedAmbiguities == SubSeq(result.errors, 1, Len(result.errors) - Len(err))
AddedPrefixes == { AddedAmbiguities[k].prefix : k \in 1..Len(AddedAmbiguities) }

\* C17: an endpoint whose candidate set came from a prefix matching two or
\* more objects and has been narrowed to exactly one id is resolved:
\* neither into_err nor into_rev_spec adds an AmbiguousPrefix diagnostic
\* for it; one is added only for an endpoint whose candidate set still has
\* two or more members.
C17_NarrowedIsResolved ==
    (call.op \in {"into_err", "into_rev_spec"} /\ result.tag = "Err") =>
        /\ \A i \in NarrowedToOne : Unwrap(prefix[i]) \notin AddedPrefixes
        /\ AddedPrefixes \subseteq { Unwrap(prefix[i]) : i \in AmbiguousSlots(objs) }

\* the position in the result's error list of the AmbiguousPrefix
\* diagnostic a terminal operation added for the prefix of endpoint i, 0
\* when there is none
AddedAt(i) ==
    IF \E k \in 1..Len(AddedAmbiguities) : AddedAmbiguities[k].prefix = Unwrap(prefix[i])
    THEN CHOOSE k \in 1..Len(AddedAmbiguities) : AddedAmbiguities[k].prefix = Unwrap(prefix[i])
    ELSE 0
\* both endpoints were named with different prefixes
TwoPrefixes == IsSome(prefix[0]) /\ IsSome(prefix[1]) /\ prefix[0] /= prefix[1]

\* C18: in the error list of into_err every AmbiguousPrefix diagnostic
\* added at finalization precedes every diagnostic accumulated during the
\* callbacks, whose order is kept, and when both endpoints are ambiguous
\* the diagnostic of endpoint 1 precedes that of endpoint 0.
C18_IntoErrOrder ==
    call.op = "into_err" =>
        /\ Len(result.errors) >= Len(err)
        /\ SubSeq(result.errors, Len(result.errors) - Len(err) + 1, Len(result.errors)) = err
        /\ \A k \in 1..Len(AddedAmbiguities) : AddedAmbiguities[k].type = "AmbiguousPrefix"
        /\ (TwoPrefixes /\ Len(AddedAmbiguities) = 2) => AddedAt(1) < AddedAt(0)

\* C19: when both endpoint slots still hold candidate sets of two or more
\* ids at finalization, the error of into_rev_spec holds one
\* AmbiguousPrefix diagnostic for each of the two endpoints, both ahead of
\* the accumulated diagnostics, endpoint 1's before endpoint 0's.
C19_BothAmbiguitiesReported ==
    (call.op = "into_rev_spec" /\ AmbiguousSlots(objs) = Slots) =>
        /\ result.tag = "Err"
        /\ Len(result.errors) = Len(err) + 2
        /\ SubSeq(result.errors, 3, Len(result.errors)) = err
        /\ \A k \in 1..2 : result.errors[k].type = "AmbiguousPrefix"
        /\ result.errors[1].prefix = Unwrap(prefix[1])
        /\ result.errors[2].prefix = Unwrap(prefix[0])

\* peel_until(path) failed on the one candidate of the current endpoint
\* because the last component of the path is missing from a tree that the
\* components before it lead to
LastComponentMissing ==
    /\ call.op = "peel_until" /\ call.ret = "None"
    /\ call.arg.peel.shape = "Path" /\ Len(call.arg.peel.path) >= 2
    /\ idx \in Slots /\ IsSome(objs[idx]) /\ Cardinality(Unwrap(objs[idx])) = 1
    /\ LET obj == the_one(objs[idx])[1]
           path == call.arg.peel.path
           front == SubSeq(path, 1, Len(path) - 1)
       IN  /\ peel(obj, "tree").ok
           /\ tree_lookup_path(peel(obj, "tree").val, front).ok
           /\ IsSome(tree_lookup_path(peel(obj, "tree").val, front).val)
           /\ Unwrap(tree_lookup_path(peel(obj, "tree").val, front).val) \in ObjectIds
           /\ ObjectStore[Unwrap(tree_lookup_path(peel(obj, "tree").val, front).val)].kind = "tree"
           /\ EntriesNamed(Unwrap(tree_lookup_path(peel(obj, "tree").val, front).val),
                           path[Len(path)]) = {}
\* the candidate, the tree it was peeled to and the deepest tree reached
PathObject == the_one(objs[idx])[1]
RootTree == peel(PathObject, "tree").val
DeepestTree ==
    Unwrap(tree_lookup_path(RootTree,
                            SubSeq(call.arg.peel.path, 1, Len(call.arg.peel.path) - 1)).val)
LastDiagnostic == err[Len(err)]

\* C20 as stated: for peel_until(path "a/b/c") on a candidate whose peeled
\* tree contains "a/b" but not "a/b/c", the diagnostic is PathNotFound, its
\* path is "a/b/c" and the tree it names is the tree at "a/b", not the
\* root tree the candidate was peeled to.
C20_Original ==
    LastComponentMissing =>
        /\ err /= <<>>
        /\ LastDiagnostic.type = "PathNotFound"
        /\ LastDiagnostic.path = call.arg.peel.path
        /\ LastDiagnostic.tree = shorten_or_id(DeepestTree)

\* C20, amended: for peel_until(path "a/b/c") on a candidate whose peeled
\* tree contains "a/b" but not "a/b/c", the diagnostic is PathNotFound, its
\* path is "a/b/c", the object it names is the candidate and the tree it
\* names is the root tree the candidate was peeled to.
C20_Amended ==
    LastComponentMissing =>
        /\ err /= <<>>
        /\ LastDiagnostic.type = "PathNotFound"
        /\ LastDiagnostic.path = call.arg.peel.path
        /\ LastDiagnostic.object = shorten_or_id(PathObject)
        /\ LastDiagnostic.tree = shorten_or_id(RootTree)

\* "a/b/c" was looked up from a commit: the candidate, the tree it peels
\* to and the tree at "a/b" are three different objects
C20_Witness ==
    /\ LastComponentMissing
    /\ call.arg.peel.path = <<"a", "b", "c">>
    /\ ObjectStore[PathObject].kind = "commit"
    /\ DeepestTree /= RootTree

\* the callbacks the delegate does not support
Unsupported ==
    {"reflog", "nth_checked_out_branch", "sibling_branch", "traverse", "find", "index_lookup"}

\* C21: each unsupported callback, in any reachable state, returns failure
\* to the driver after recording an UnsupportedFeature diagnostic naming
\* the feature, and leaves candidate sets, references, kind and endpoint
\* index unchanged; it never aborts the process.
C21_UnsupportedFailsLoudly ==
    [][ (hist' /= hist /\ call'.op \in Unsupported) =>
          /\ call'.ret = "None"
          /\ pc' = "aborted"
          /\ Len(err') = Len(err) + 1
          /\ SubSeq(err', 1, Len(err)) = err
          /\ err'[Len(err')].type = "UnsupportedFeature"
          /\ err'[Len(err')].info = <<call'.op>>
          /\ objs' = objs /\ refs' = refs /\ kind' = kind /\ idx' = idx
      ]_vars

\* C22: the flag of the current endpoint is false after every find_ref and
\* every peel_until, whatever they return, and true after every
\* disambiguate_prefix, whatever it returns; no callback changes the flag
\* of the other endpoint.
C22_FlagFollowsLastCall ==
    [][ (hist' /= hist /\ idx \in Slots /\ pc' /= "panicked") =>
          /\ call'.op \in {"find_ref", "peel_until"} =>
                ~last_call_was_disambiguate_prefix'[idx]
          /\ call'.op = "disambiguate_prefix" =>
                last_call_was_disambiguate_prefix'[idx]
          /\ last_call_was_disambiguate_prefix'[1 - idx] =
                last_call_was_disambiguate_prefix[1 - idx]
      ]_vars

\* peel_until failed on an endpoint named by disambiguate_prefix, which had
\* set the flag, and the flag is clear
C22_Witness ==
    /\ hist = <<"disambiguate_prefix", "peel_until">>
    /\ call.ret = "None"
    /\ ~last_call_was_disambiguate_prefix[0]

TwoEndpointKinds == {"RangeBetween", "ReachableToMergeBase"}
\* a kind of two endpoints is emitted in this step
TwoEndpointKindStep == Step("kind") /\ call'.arg.kind \in TwoEndpointKinds
\* what the first endpoint holds is left alone, except that its reference
\* may be followed to the one-element candidate set of its target
FirstSlotKept ==
    /\ refs'[0] = refs[0]
    /\ prefix'[0] = prefix[0]
    /\ ambiguous_objects'[0] = ambiguous_objects[0]
    /\ last_call_was_disambiguate_prefix'[0] = last_call_was_disambiguate_prefix[0]
    /\ \/ objs'[0] = objs[0]
       \/ /\ IsNone(objs[0]) /\ IsSome(refs[0])
          /\ objs'[0] = Some(NamedObjects(0))

\* C23: kind(k) records k and succeeds; it advances the endpoint index by
\* exactly one when k is range-between or reachable-to-merge-base and
\* leaves it unchanged for the other four kinds; no other callback changes
\* the index and it never decreases; so while the driver emits at most one
\* kind of two endpoints the index stays within {0, 1} and every callback
\* after that kind has slot 1 as its endpoint.
C23_KindAdvancesIndex ==
    [][ /\ (Step("kind") /\ idx \in Slots) =>
              /\ kind' = Some(call'.arg.kind)
              /\ call'.ret = "Some"
              /\ idx' = IF call'.arg.kind \in TwoEndpointKinds THEN idx + 1 ELSE idx
        /\ (hist' /= hist /\ ~Step("kind")) => idx' = idx
        /\ idx' >= idx
        /\ (hist' /= hist /\ idx = 0 /\ ~TwoEndpointKindStep) => idx' = 0
        /\ (hist' /= hist /\ idx = 1 /\ ~TwoEndpointKindStep) =>
              /\ idx' = 1
              /\ FirstSlotKept
      ]_vars

\* both endpoints of a range were named by references and done has
\* returned with the second endpoint current
C23_Witness ==
    /\ hist = <<"find_ref", "kind", "find_ref", "done">>
    /\ kind = Some("RangeBetween")
    /\ idx = 1
    /\ IsSome(refs[0]) /\ IsSome(refs[1])
    /\ IsSome(objs[1])

\* C24: the diagnostics and the candidate sets do not depend on the order
\* in which candidate sets are enumerated: every peel_until and every run
\* of the fallback filter has one outcome for its state and arguments,
\* also when two or more candidates fail.
C24_OrderIndependent ==
    [][ /\ PeelStep =>
              Cardinality(peel_until_outcomes(PeelSet, err, call'.arg.peel)) = 1
        /\ FilterStep =>
              Cardinality(disambiguate_objects_by_fallback_hint(
                              last_call_was_disambiguate_prefix, FilterSets, err, idx,
                              FilterHint)) = 1
      ]_vars


\* C25: in the list dependencies() returns, every entry whose mode is
\* Skipped has kind DependencyOfUserSelection: a crate the user selected is
\* never reported as skipped.
C25_SkippedAreDependencies ==
    \A k \in 1..Len(traversal.crates) :
        traversal.crates[k].mode.tag = "Skipped"
            => traversal.crates[k].kind = "DependencyOfUserSelection"


\* the number of candidates an endpoint holds, none when it has no set
SetSize(os, i) == IF IsSome(os[i]) THEN Cardinality(Unwrap(os[i])) ELSE 0

\* an endpoint with two or more candidates has its prefix recorded
MultiMemberHasPrefix ==
    \A i \in Slots : SetSize(objs, i) >= 2 => IsSome(prefix[i])

\* into_rev_spec, stopping at an endpoint with two or more candidates,
\* has returned the ambiguity error
AmbiguityFormatted ==
    (/\ call.op = "into_rev_spec"
     /\ IsSome(first_stop(objs))
     /\ SetSize(objs, Unwrap(first_stop(objs))) >= 2)
        => result.tag = "Err" /\ pc = "finished"

\* a set comes to hold two or more candidates only by disambiguate_prefix,
\* and no other callback adds to the size of a set there is
OnlyPrefixGrowsSets ==
    \A i \in Slots :
        /\ (SetSize(objs', i) >= 2 /\ SetSize(objs', i) > SetSize(objs, i))
               => call'.op = "disambiguate_prefix"
        /\ (IsSome(objs[i]) /\ call'.op /= "disambiguate_prefix")
               => SetSize(objs', i) <= SetSize(objs, i)

\* C26: in every reachable state an endpoint whose candidate set has two
\* or more members has its hex prefix recorded, since only
\* disambiguate_prefix makes such sets and neither promotion, peel_until
\* nor the fallback filter adds to a set; so into_rev_spec always finds the
\* prefix when it formats the ambiguity diagnostic.
C26_MultiMemberHasPrefix ==
    /\ [](MultiMemberHasPrefix /\ AmbiguityFormatted)
    /\ [][OnlyPrefixGrowsSets]_vars

\* into_rev_spec has formatted the ambiguity of an endpoint whose
\* candidates peel_until looked at and left at two or more
C26_Witness ==
    /\ call.op = "into_rev_spec"
    /\ result.tag = "Err"
    /\ \E k \in 1..Len(hist) : hist[k] = "peel_until"
    /\ \E i \in Slots : SetSize(objs, i) >= 2 /\ IsSome(prefix[i])

====
